---------------------------- MODULE Spec2Model ----------------------------
(***************************************************************************)
(* Livebot (src/livebot.py): a Flask front-end over a Google Sheet.        *)
(*                                                                         *)
(* The model covers the data-access layer: the connection cache            *)
(* (_sheet_singleton, get_sheet), the snapshot cache (_cached_data,        *)
(* get_sheet_data), the append route (add_row) and the search route        *)
(* (search_rows).  Request handlers run as threads of one process and      *)
(* share the two module-level dictionaries; every access to shared state   *)
(* (a dictionary, the clock, the remote sheet) is one step of a thread.    *)
(*                                                                         *)
(* Strings are sequences of one-character strings, a row is a sequence of  *)
(* cells and a table (the value of get_all_values) a sequence of rows.     *)
(***************************************************************************)
EXTENDS Integers, Sequences, FiniteSets, TLC

(***************************************************************************)
(* Configuration (environment-provided integers, livebot.py lines 23-25).  *)
(* The deployment modelled sets CACHE_TTL_SECONDS=2 and                    *)
(* SHEET_REAUTH_SECONDS=3 so that both windows elapse within MaxTime.      *)
(* MAX_SEARCH_RESULTS is a variable: Init draws every value 0..MaxLimit.   *)
(***************************************************************************)
CACHE_TTL_SECONDS == 2
SHEET_REAUTH_SECONDS == 3

\* Bounds of the model.
MaxTime == 4          \* time.time() runs from 1 to MaxTime
MaxTimeThreaded == 3  \* the same, in the runs of the threaded server
MaxHandles == 3       \* sheet handles alive at one time
MaxRemoteRows == 3    \* rows of the remote sheet (header row included)
MaxLimit == 1         \* configured MAX_SEARCH_RESULTS ranges over 0..MaxLimit
MaxQueryLen == 3      \* length of the q parameter of /search
MaxCalls == 3         \* requests served in one run

Threads == {1, 2}     \* request-handler threads of the server

None == 0             \* Python's None for a sheet handle; a handle is 1..MaxHandles

VARIABLES
    clock,              \* time.time()
    sheet_singleton,    \* _sheet_singleton: [sheet, ts]
    cached_data,        \* _cached_data: [headers, rows, fetched_at]
    remote,             \* the remote sheet: what get_all_values returns
    MAX_SEARCH_RESULTS, \* configured at start-up, never changed
    served,             \* requests accepted so far
    th,                 \* per thread: program counter and locals of the running handler
    prev,               \* per thread: its previous get_sheet_data and get_sheet calls
    read_at             \* when the sheet was read for the snapshot in cached_data

vars == <<clock, sheet_singleton, cached_data, remote, MAX_SEARCH_RESULTS,
          served, th, prev, read_at>>

-----------------------------------------------------------------------------
(* Strings *)

Whitespace == {" ", "\t"}
QueryChars == {"a", "B", " "}

\* str.lower() on one character of the alphabet used here
LowerChar(c) ==
    CASE c = "A" -> "a"
      [] c = "B" -> "b"
      [] OTHER -> c

\* str.lower()
Lower(s) == [i \in 1..Len(s) |-> LowerChar(s[i])]

\* str.strip(): drops leading and trailing whitespace, keeps inner whitespace
Strip(s) ==
    LET keep == {i \in 1..Len(s) : s[i] \notin Whitespace}
    IN  IF keep = {} THEN <<>>
        ELSE LET lo == CHOOSE i \in keep : \A j \in keep : i <= j
                 hi == CHOOSE i \in keep : \A j \in keep : j <= i
             IN  SubSeq(s, lo, hi)

\* Python's `sub in s` for strings
Contains(s, sub) ==
    \E i \in 0..(Len(s) - Len(sub)) : SubSeq(s, i + 1, i + Len(sub)) = sub

\* NormQuery without the strip: the query is lowered only
NormQueryNoStrip(q) == Lower(q)

\* line 125: (request.args.get("q") or "").strip().lower()
NormQuery(q) == Lower(Strip(q))

\* RowMatches with the operands of `in` swapped
RowMatchesSwapped(query, row) ==
    \E c \in 1..Len(row) : Contains(query, Lower(row[c]))

\* line 133: any(query in str(cell).lower() for cell in row)
RowMatches(query, row) ==
    \E c \in 1..Len(row) : Contains(Lower(row[c]), query)

\* line 133: [row for row in rows if ...]
FilterRows(query, rows) ==
    SelectSeq(rows, LAMBDA row : RowMatches(query, row))

\* LimitRows keeping the last rows, as index() does (line 91)
LimitRowsLast(limit, filtered) ==
    IF limit # 0 /\ Len(filtered) > limit
    THEN SubSeq(filtered, Len(filtered) - limit + 1, Len(filtered))
    ELSE filtered

\* lines 136-137: truncate to MAX_SEARCH_RESULTS unless it is 0 (falsy)
LimitRows(limit, filtered) ==
    IF limit # 0 /\ Len(filtered) > limit
    THEN SubSeq(filtered, 1, limit)
    ELSE filtered

\* SplitRows keeping the first row among the data rows
SplitRowsAll(data) == data

\* lines 66-67: headers = data[0] if data else []; rows = data[1:] if len(data) > 1 else []
SplitHeaders(data) == IF Len(data) > 0 THEN data[1] ELSE <<>>
SplitRows(data) == IF Len(data) > 1 THEN Tail(data) ELSE <<>>

-----------------------------------------------------------------------------
(* Inputs *)

\* request.form name, email, age of POST /add (lines 103-105)
FormRows ==
    { << <<"A", "b">>, <<"a">>, <<"b">> >>,
      << <<"b", " ", "a">>, <<"B">>, <<>> >> }

\* a header row as a sheet's first row
HeaderRow == << <<"N">>, <<"E">>, <<"G">> >>

RowPool == FormRows \cup {HeaderRow}

\* sequences over S of length 0..n
SeqUpTo(S, n) == UNION {[1..k -> S] : k \in 0..n}

\* the sheets the server may find at start-up
Tables == SeqUpTo(RowPool, MaxRemoteRows)

\* the q parameter of GET /search
Queries == SeqUpTo(QueryChars, MaxQueryLen)

-----------------------------------------------------------------------------
(* State *)

NoSheet == [sheet |-> None, ts |-> 0]                       \* line 28
NoData == [headers |-> <<>>, rows |-> <<>>, fetched_at |-> 0] \* line 29

\* a thread between requests: every local cleared
Idle ==
    [pc |-> "idle", op |-> "none", force |-> FALSE, q |-> <<>>, row |-> <<>>,
     tnow |-> 0,          \* now of get_sheet_data (line 57); 0: not called
     f0 |-> 0,            \* fetched_at as read by line 59
     hit |-> FALSE,       \* line 60 taken: served from the cache
     hdrs |-> <<>>,       \* headers, rows: locals and return value of get_sheet_data
     rows |-> <<>>,
     reads |-> 0,         \* get_all_values calls that returned, in this request
     stored |-> FALSE,    \* line 68 executed
     rat |-> 0,           \* when the sheet was read for the rows returned
     gnow |-> 0,          \* now of get_sheet (line 33); 0: not called
     s0 |-> NoSheet,      \* _sheet_singleton as read by line 34
     sheet |-> None,      \* sheet: local of get_sheet, then of its caller
     att |-> 0,           \* open attempts (lines 36-47) in this request
     resp |-> <<>>,       \* rows of the JSON response of /search and /chat,
                          \* row of the JSON response of /latest
     rhdrs |-> <<>>,      \* headers of the JSON response of /search and /chat
     rtype |-> "none",    \* type of the JSON response of /chat: text, table
     text |-> "none",     \* which text /chat answered with
     out |-> "none"]      \* how the handler ended: ok, noconn, error

\* what prev keeps of a get_sheet_data call (d) and of a get_sheet call (g)
DataCall(r) ==
    [tnow |-> r.tnow, force |-> r.force, hit |-> r.hit, reads |-> r.reads,
     stored |-> r.stored, hdrs |-> r.hdrs, rows |-> r.rows, out |-> r.out]
SheetCall(r) ==
    [gnow |-> r.gnow, s0 |-> r.s0, sheet |-> r.sheet, att |-> r.att]

\* added: a row was appended by the thread since its last get_sheet_data call
NoPrev == [d |-> DataCall(Idle), g |-> SheetCall(Idle), added |-> FALSE]

TypeOK ==
    /\ clock \in 1..MaxTime
    /\ sheet_singleton \in [sheet : 0..MaxHandles, ts : 0..MaxTime]
    /\ cached_data.fetched_at \in 0..MaxTime
    /\ Len(remote) <= MaxRemoteRows
    /\ MAX_SEARCH_RESULTS \in 0..MaxLimit
    /\ served \in 0..MaxCalls
    /\ \A t \in Threads : th[t].pc \in
         {"idle", "gsd_check", "gsd_hit", "gsd_hit_rows", "gs_now", "gs_check",
          "gs_hit", "gs_open", "gs_set_sheet", "gs_set_ts", "gsd_read",
          "gsd_store", "add_append", "chat_read", "done"}

InitCommon ==
    /\ clock = 1
    /\ sheet_singleton = NoSheet
    /\ cached_data = NoData
    /\ served = 0
    /\ th = [t \in Threads |-> Idle]
    /\ prev = [t \in Threads |-> NoPrev]
    /\ read_at = 0

\* the server starts over an empty sheet or over one with its header row
Init ==
    /\ InitCommon
    /\ MAX_SEARCH_RESULTS = MaxLimit
    /\ remote \in SeqUpTo({HeaderRow}, 1)

\* the server starts over any sheet of up to MaxRemoteRows rows
InitSearch ==
    /\ InitCommon
    /\ MAX_SEARCH_RESULTS \in 0..MaxLimit
    /\ remote \in Tables

-----------------------------------------------------------------------------
(* Returns: the local code that follows a call, up to the next shared access *)

\* lines 130-139 of search_rows, after get_sheet_data returned (headers, rows)
SearchResponse(limit, q, hdrs, rows) ==
    IF hdrs = <<>> /\ rows = <<>>
    THEN <<>>
    ELSE LimitRows(limit, FilterRows(NormQuery(q), rows))

\* line 139 (and line 131): the headers of the response of search_rows
SearchHeaders(hdrs, rows) ==
    IF hdrs = <<>> /\ rows = <<>> THEN <<>> ELSE hdrs

\* LatestRow answering with the first data row
LatestRowFirst(hdrs, rows) ==
    IF rows = <<>> THEN <<>> ELSE rows[1]

\* lines 114-119 of get_latest, after get_sheet_data returned (headers, rows)
LatestRow(hdrs, rows) ==
    IF hdrs = <<>> /\ rows = <<>>
    THEN <<>>
    ELSE IF rows = <<>> THEN <<>> ELSE rows[Len(rows)]

\* lines 143-176: _basic_chat_response; the answer is named by its topic,
\* "none" is None
BasicChatResponse(query) ==
    LET q == Lower(Strip(query))
        has(w) == Contains(q, w)
        greetings == {<<"h", "i">>, <<"h", "e", "l", "l", "o">>,
                      <<"h", "e", "y">>, <<"y", "o">>,
                      <<"h", "o", "l", "a">>}
    IN  IF q = <<>> THEN "none"
        ELSE IF (\E word \in greetings : has(word)) \/ q \in greetings
        THEN "greeting"
        ELSE IF has(<<"h", "e", "l", "p">>)
                \/ (has(<<"h", "o", "w">>) /\ has(<<"u", "s", "e">>))
        THEN "help"
        ELSE IF has(<<"w", "h", "o", " ", "a", "r", "e", " ", "y", "o", "u">>)
                \/ (has(<<"w", "h", "a", "t">>) /\ has(<<"y", "o", "u">>)
                    /\ has(<<"d", "o">>))
        THEN "about"
        ELSE IF has(<<"s", "h", "o", "w", " ", "t", "a", "b", "l", "e">>)
                \/ has(<<"d", "i", "s", "p", "l", "a", "y", " ", "t", "a", "b", "l", "e">>)
        THEN "table"
        ELSE IF has(<<"c", "l", "e", "a", "r">>)
        THEN "clear"
        ELSE "none"

\* lines 192-205 of chat_router, after get_all_values returned data
ChatAnswer(r, data, limit) ==
    IF data = <<>>
    THEN [r EXCEPT !.pc = "done", !.out = "ok", !.rtype = "text",
                   !.text = "empty"]
    ELSE LET headers == data[1]
             rows == IF Len(data) > 1 THEN Tail(data) ELSE <<>>
             q == Lower(Strip(r.q))
         IN  IF q = <<>>
             THEN [r EXCEPT !.pc = "done", !.out = "ok", !.rtype = "text",
                            !.text = "enter", !.hdrs = headers, !.rows = rows]
             ELSE [r EXCEPT !.pc = "done", !.out = "ok", !.rtype = "table",
                            !.hdrs = headers, !.rows = rows,
                            !.rhdrs = headers,
                            !.resp = LimitRows(limit, FilterRows(q, rows))]

\* get_sheet_data returns (r.hdrs, r.rows) to the handler r.op
RetSheetData(r, limit) ==
    IF r.op = "search"
    THEN [r EXCEPT !.pc = "done", !.out = "ok",
                   !.resp = SearchResponse(limit, r.q, r.hdrs, r.rows),
                   !.rhdrs = SearchHeaders(r.hdrs, r.rows)]
    ELSE IF r.op = "latest"
    THEN [r EXCEPT !.pc = "done", !.out = "ok",
                   !.resp = LatestRow(r.hdrs, r.rows)]
    ELSE [r EXCEPT !.pc = "done", !.out = "ok"]

\* RetGetSheet with add_row going on to append_row without the test of
\* line 101
RetGetSheetAppends(r, limit) ==
    IF r.op = "add"
    THEN [r EXCEPT !.pc = "add_append"]
    ELSE IF r.op = "chat"
    THEN IF r.sheet = None
         THEN [r EXCEPT !.pc = "done", !.out = "noconn", !.rtype = "text",
                        !.text = "noconfig"]
         ELSE [r EXCEPT !.pc = "chat_read"]
    ELSE IF r.sheet = None
         THEN [RetSheetData([r EXCEPT !.hdrs = <<>>, !.rows = <<>>], limit)
                 EXCEPT !.out = "noconn"]
         ELSE [r EXCEPT !.pc = "gsd_read"]

\* RetGetSheet serving the last snapshot, instead of ([], []), when there is
\* no connection
RetGetSheetStale(r, limit) ==
    IF r.op = "add"
    THEN IF r.sheet = None
         THEN [r EXCEPT !.pc = "done", !.out = "noconn"]
         ELSE [r EXCEPT !.pc = "add_append"]
    ELSE IF r.op = "chat"
    THEN IF r.sheet = None
         THEN [r EXCEPT !.pc = "done", !.out = "noconn", !.rtype = "text",
                        !.text = "noconfig"]
         ELSE [r EXCEPT !.pc = "chat_read"]
    ELSE IF r.sheet = None
         THEN [RetSheetData([r EXCEPT !.hdrs = cached_data.headers,
                                      !.rows = cached_data.rows], limit)
                 EXCEPT !.out = "noconn"]
         ELSE [r EXCEPT !.pc = "gsd_read"]

\* get_sheet returns r.sheet: to add_row (lines 100-102), to chat_router
\* (lines 187-189) or to get_sheet_data (lines 62-64)
RetGetSheet(r, limit) ==
    IF r.op = "add"
    THEN IF r.sheet = None
         THEN [r EXCEPT !.pc = "done", !.out = "noconn"]
         ELSE [r EXCEPT !.pc = "add_append"]
    ELSE IF r.op = "chat"
    THEN IF r.sheet = None
         THEN [r EXCEPT !.pc = "done", !.out = "noconn", !.rtype = "text",
                        !.text = "noconfig"]
         ELSE [r EXCEPT !.pc = "chat_read"]
    ELSE IF r.sheet = None
         THEN [RetSheetData([r EXCEPT !.hdrs = <<>>, !.rows = <<>>], limit)
                 EXCEPT !.out = "noconn"]
         ELSE [r EXCEPT !.pc = "gsd_read"]

-----------------------------------------------------------------------------
(* Environment *)

\* time passes, up to the end of the run
Tick(end) ==
    /\ clock < end
    /\ clock' = clock + 1
    /\ UNCHANGED <<sheet_singleton, cached_data, remote, MAX_SEARCH_RESULTS,
                   served, th, prev, read_at>>

-----------------------------------------------------------------------------
(* Handlers.  Set(t, r) is the step of thread t that leaves its locals as r   *)
(* and touches no shared state other than what the action names.              *)

Set(t, r) == th' = [th EXCEPT ![t] = r]

Shared == <<sheet_singleton, cached_data, remote>>
Frame == <<clock, MAX_SEARCH_RESULTS, served, prev, read_at>>
Accept == served < MaxCalls /\ served' = served + 1
CallFrame == <<clock, MAX_SEARCH_RESULTS, prev, read_at>>

\* a direct call get_sheet_data(force): line 57 reads the clock
CallSheetData(t, force) ==
    /\ th[t].pc = "idle"
    /\ Set(t, [Idle EXCEPT !.pc = "gsd_check", !.op = "data", !.force = force,
                           !.tnow = clock])
    /\ Accept
    /\ UNCHANGED <<Shared, CallFrame>>

\* GET /search?q=: lines 125-129; an empty query answers at once (line 127),
\* any other calls get_sheet_data() (line 57)
CallSearch(t, q) ==
    /\ th[t].pc = "idle"
    /\ IF NormQuery(q) = <<>>
       THEN Set(t, [Idle EXCEPT !.pc = "done", !.op = "search", !.q = q,
                                !.out = "ok"])
       ELSE Set(t, [Idle EXCEPT !.pc = "gsd_check", !.op = "search", !.q = q,
                                !.tnow = clock])
    /\ Accept
    /\ UNCHANGED <<Shared, CallFrame>>

\* GET /latest: line 113 calls get_sheet_data() (line 57)
CallLatest(t) ==
    /\ th[t].pc = "idle"
    /\ Set(t, [Idle EXCEPT !.pc = "gsd_check", !.op = "latest", !.tnow = clock])
    /\ Accept
    /\ UNCHANGED <<Shared, CallFrame>>

\* GET /chat?q=: lines 181-187; a small-talk answer is returned at once
\* (line 184), any other query calls get_sheet()
CallChat(t, q) ==
    /\ th[t].pc = "idle"
    /\ IF BasicChatResponse(q) # "none"
       THEN Set(t, [Idle EXCEPT !.pc = "done", !.op = "chat", !.q = q,
                                !.out = "ok", !.rtype = "text",
                                !.text = BasicChatResponse(q)])
       ELSE Set(t, [Idle EXCEPT !.pc = "gs_now", !.op = "chat", !.q = q])
    /\ Accept
    /\ UNCHANGED <<Shared, CallFrame>>

\* POST /add: line 100 calls get_sheet()
CallAddRow(t, row) ==
    /\ th[t].pc = "idle"
    /\ Set(t, [Idle EXCEPT !.pc = "gs_now", !.op = "add", !.row = row])
    /\ Accept
    /\ UNCHANGED <<Shared, CallFrame>>

\* IsFresh without the test of force
IsFreshForced(force, fetched_at, now) ==
    fetched_at # 0 /\ (now - fetched_at) < CACHE_TTL_SECONDS

\* IsFresh with <= for <
IsFreshLate(force, fetched_at, now) ==
    ~force /\ fetched_at # 0 /\ (now - fetched_at) <= CACHE_TTL_SECONDS

\* line 59: serve from the cache if fresh, else line 62 calls get_sheet()
IsFresh(force, fetched_at, now) ==
    ~force /\ fetched_at # 0 /\ (now - fetched_at) < CACHE_TTL_SECONDS

GsdCheck(t) ==
    /\ th[t].pc = "gsd_check"
    /\ LET f == cached_data.fetched_at
       IN  IF IsFresh(th[t].force, f, th[t].tnow)
           THEN Set(t, [th[t] EXCEPT !.pc = "gsd_hit", !.f0 = f, !.hit = TRUE])
           ELSE Set(t, [th[t] EXCEPT !.pc = "gs_now", !.f0 = f])
    /\ UNCHANGED <<Shared, Frame>>

\* line 60: the tuple's first element, _cached_data["headers"]
GsdHitHeaders(t) ==
    /\ th[t].pc = "gsd_hit"
    /\ Set(t, [th[t] EXCEPT !.pc = "gsd_hit_rows", !.hdrs = cached_data.headers])
    /\ UNCHANGED <<Shared, Frame>>

\* line 60: the tuple's second element, _cached_data["rows"], and the return
GsdHitRows(t) ==
    /\ th[t].pc = "gsd_hit_rows"
    /\ Set(t, RetSheetData([th[t] EXCEPT !.rows = cached_data.rows,
                                         !.rat = read_at],
                           MAX_SEARCH_RESULTS))
    /\ UNCHANGED <<Shared, Frame>>

\* line 33: now = time.time()
GsNow(t) ==
    /\ th[t].pc = "gs_now"
    /\ Set(t, [th[t] EXCEPT !.pc = "gs_check", !.gnow = clock])
    /\ UNCHANGED <<Shared, Frame>>

\* IsReusable with <= for <
IsReusableLate(single, now) ==
    single.sheet # None /\ (now - single.ts) <= SHEET_REAUTH_SECONDS

\* line 34: reuse the handle while it is younger than SHEET_REAUTH_SECONDS
IsReusable(single, now) ==
    single.sheet # None /\ (now - single.ts) < SHEET_REAUTH_SECONDS

GsCheck(t) ==
    /\ th[t].pc = "gs_check"
    /\ IF IsReusable(sheet_singleton, th[t].gnow)
       THEN Set(t, [th[t] EXCEPT !.pc = "gs_hit", !.s0 = sheet_singleton])
       ELSE Set(t, [th[t] EXCEPT !.pc = "gs_open", !.s0 = sheet_singleton])
    /\ UNCHANGED <<Shared, Frame>>

\* line 35: return _sheet_singleton["sheet"]
GsHit(t) ==
    /\ th[t].pc = "gs_hit"
    /\ Set(t, RetGetSheet([th[t] EXCEPT !.sheet = sheet_singleton.sheet],
                          MAX_SEARCH_RESULTS))
    /\ UNCHANGED <<Shared, Frame>>

\* the handles some variable still refers to
InUse ==
    {sheet_singleton.sheet}
      \cup {th[t].sheet : t \in Threads} \cup {th[t].s0.sheet : t \in Threads}
      \cup {prev[t].g.sheet : t \in Threads} \cup {prev[t].g.s0.sheet : t \in Threads}

\* lines 36-47: credentials, authorize and open_by_key succeed: a new handle,
\* an object distinct from every handle still referred to
GsOpenOk(t) ==
    /\ th[t].pc = "gs_open"
    /\ \E h \in 1..MaxHandles :
         /\ h \notin InUse
         /\ \A k \in 1..(h - 1) : k \in InUse
         /\ Set(t, [th[t] EXCEPT !.pc = "gs_set_sheet", !.sheet = h,
                                 !.att = @ + 1])
    /\ UNCHANGED <<Shared, Frame>>

\* OpenFailed caching the failure: the timestamp is advanced
OpenFailedStamp(single, now) == [single EXCEPT !.ts = now]

\* lines 51-53: the except branch logs and returns None; it assigns nothing
\* to _sheet_singleton
OpenFailed(single, now) == single

\* lines 36-47 raise; lines 51-53 log and return None
GsOpenFail(t) ==
    /\ th[t].pc = "gs_open"
    /\ sheet_singleton' = OpenFailed(sheet_singleton, th[t].gnow)
    /\ Set(t, RetGetSheet([th[t] EXCEPT !.sheet = None, !.att = @ + 1],
                          MAX_SEARCH_RESULTS))
    /\ UNCHANGED <<cached_data, remote, Frame>>

\* line 48: _sheet_singleton["sheet"] = sheet
GsSetSheet(t) ==
    /\ th[t].pc = "gs_set_sheet"
    /\ sheet_singleton' = [sheet_singleton EXCEPT !.sheet = th[t].sheet]
    /\ Set(t, [th[t] EXCEPT !.pc = "gs_set_ts"])
    /\ UNCHANGED <<cached_data, remote, Frame>>

\* lines 49-50: _sheet_singleton["ts"] = now; return sheet
GsSetTs(t) ==
    /\ th[t].pc = "gs_set_ts"
    /\ sheet_singleton' = [sheet_singleton EXCEPT !.ts = th[t].gnow]
    /\ Set(t, RetGetSheet(th[t], MAX_SEARCH_RESULTS))
    /\ UNCHANGED <<cached_data, remote, Frame>>

\* lines 65-67: data = sheet.get_all_values() returns; split headers and rows
GsdReadOk(t) ==
    /\ th[t].pc = "gsd_read"
    /\ Set(t, [th[t] EXCEPT !.pc = "gsd_store", !.reads = @ + 1,
                            !.rat = clock,
                            !.hdrs = SplitHeaders(remote),
                            !.rows = SplitRows(remote)])
    /\ UNCHANGED <<Shared, Frame>>

\* GsdReadFail emptying the snapshot cache
GsdReadFailClears(t) ==
    /\ th[t].pc = "gsd_read"
    /\ cached_data' = NoData
    /\ Set(t, [th[t] EXCEPT !.pc = "done", !.out = "error"])
    /\ UNCHANGED <<sheet_singleton, remote, Frame>>

\* line 65: get_all_values raises; nothing catches it and the handler ends
\* with the exception
GsdReadFail(t) ==
    /\ th[t].pc = "gsd_read"
    /\ Set(t, [th[t] EXCEPT !.pc = "done", !.out = "error"])
    /\ UNCHANGED <<Shared, Frame>>

\* StoreData with fetched_at left out of the update
StoreDataNoStamp(hdrs, rows, now) ==
    [headers |-> hdrs, rows |-> rows, fetched_at |-> cached_data.fetched_at]

\* lines 68-73: _cached_data.update({...}); return headers, rows
StoreData(hdrs, rows, now) ==
    [headers |-> hdrs, rows |-> rows, fetched_at |-> now]

GsdStore(t) ==
    /\ th[t].pc = "gsd_store"
    /\ cached_data' = StoreData(th[t].hdrs, th[t].rows, th[t].tnow)
    /\ read_at' = th[t].rat
    /\ Set(t, RetSheetData([th[t] EXCEPT !.stored = TRUE], MAX_SEARCH_RESULTS))
    /\ UNCHANGED <<sheet_singleton, remote, clock, MAX_SEARCH_RESULTS, served,
                   prev>>

\* chat_router answering from the snapshot cache when it holds a snapshot
ChatReadCached(t) ==
    /\ th[t].pc = "chat_read"
    /\ IF cached_data.fetched_at # 0
       THEN Set(t, ChatAnswer(th[t],
                              IF cached_data.headers = <<>> /\ cached_data.rows = <<>>
                              THEN <<>>
                              ELSE <<cached_data.headers>> \o cached_data.rows,
                              MAX_SEARCH_RESULTS))
       ELSE Set(t, ChatAnswer([th[t] EXCEPT !.reads = @ + 1], remote,
                              MAX_SEARCH_RESULTS))
    /\ UNCHANGED <<Shared, Frame>>

\* line 191: data = sheet.get_all_values() or [] returns; lines 192-205 answer
ChatReadOk(t) ==
    /\ th[t].pc = "chat_read"
    /\ Set(t, ChatAnswer([th[t] EXCEPT !.reads = @ + 1], remote,
                         MAX_SEARCH_RESULTS))
    /\ UNCHANGED <<Shared, Frame>>

\* line 191: get_all_values raises; nothing catches it
ChatReadFail(t) ==
    /\ th[t].pc = "chat_read"
    /\ Set(t, [th[t] EXCEPT !.pc = "done", !.out = "error"])
    /\ UNCHANGED <<Shared, Frame>>

\* add_row that also drops the snapshot after the append
AddAppendInvalidate(t) ==
    /\ th[t].pc = "add_append"
    /\ Len(remote) < MaxRemoteRows
    /\ remote' = Append(remote, th[t].row)
    /\ cached_data' = NoData
    /\ Set(t, [th[t] EXCEPT !.pc = "done", !.out = "ok"])
    /\ UNCHANGED <<sheet_singleton, Frame>>

\* lines 103-107: sheet.append_row([name, email, age]) returns; redirect
AddAppendOk(t) ==
    /\ th[t].pc = "add_append"
    /\ Len(remote) < MaxRemoteRows
    /\ remote' = Append(remote, th[t].row)
    /\ Set(t, [th[t] EXCEPT !.pc = "done", !.out = "ok"])
    /\ UNCHANGED <<sheet_singleton, cached_data, Frame>>

\* line 106: append_row raises
AddAppendFail(t) ==
    /\ th[t].pc = "add_append"
    /\ Set(t, [th[t] EXCEPT !.pc = "done", !.out = "error"])
    /\ UNCHANGED <<Shared, Frame>>

\* the handler has answered; the thread takes the next request.  With hist,
\* prev records the thread's last get_sheet_data call (d), its last get_sheet
\* call (g), and whether it appended a row after d.
Finish(t, hist) ==
    /\ th[t].pc = "done"
    /\ prev' = IF hist
               THEN [prev EXCEPT ![t] =
                       [d |-> IF th[t].tnow # 0 THEN DataCall(th[t]) ELSE @.d,
                        g |-> IF th[t].gnow # 0 THEN SheetCall(th[t]) ELSE @.g,
                        added |-> IF th[t].tnow # 0 THEN FALSE
                                  ELSE IF th[t].op = "add" /\ th[t].out = "ok"
                                       THEN TRUE ELSE @.added]]
               ELSE prev
    /\ Set(t, Idle)
    /\ UNCHANGED <<Shared, clock, MAX_SEARCH_RESULTS, served, read_at>>

\* the steps of get_sheet_data and get_sheet in a running handler
StepRead(t) ==
    \/ GsdCheck(t) \/ GsdHitHeaders(t) \/ GsdHitRows(t)
    \/ GsNow(t) \/ GsCheck(t) \/ GsHit(t)
    \/ GsOpenOk(t) \/ GsOpenFail(t) \/ GsSetSheet(t) \/ GsSetTs(t)
    \/ GsdReadOk(t) \/ GsdReadFail(t) \/ GsdStore(t)

\* the steps of a running handler
Step(t) ==
    \/ StepRead(t)
    \/ AddAppendOk(t) \/ AddAppendFail(t)

\* a request arrives at an idle thread
Call(t, queries) ==
    \/ \E force \in BOOLEAN : CallSheetData(t, force)
    \/ \E q \in queries : CallSearch(t, q)
    \/ CallLatest(t)
    \/ \E row \in FormRows : CallAddRow(t, row)

\* the requests of the threaded runs: snapshot reads and appends
CallCache(t) ==
    \/ \E force \in BOOLEAN : CallSheetData(t, force)
    \/ \E row \in FormRows : CallAddRow(t, row)

\* a blank query, a padded one and one that matches no row
FewQueries == {<<" ">>, <<" ", "a">>, <<"B", "B">>}

\* the threaded server: both threads serve requests, in any interleaving
Next ==
    \/ Tick(MaxTimeThreaded)
    \/ \E t \in Threads : CallCache(t) \/ Step(t) \/ Finish(t, FALSE)

\* one request at a time: thread 1 serves every request
NextSeq ==
    \/ Tick(MaxTime)
    \/ Call(1, FewQueries) \/ Step(1) \/ Finish(1, TRUE)

\* searches only, one at a time and within one second, over every query up
\* to MaxQueryLen
NextSearch ==
    \/ \E q \in Queries : CallSearch(1, q)
    \/ StepRead(1) \/ Finish(1, FALSE)

\* the q parameter of GET /chat: every query up to MaxQueryLen and three that
\* _basic_chat_response answers itself
ChatQueries ==
    Queries \cup {<<"h", "i">>, <<"h", "e", "l", "p">>,
                  <<"c", "l", "e", "a", "r">>}

\* chat queries and snapshot reads, one at a time and within one second
NextChat ==
    \/ \E q \in ChatQueries : CallChat(1, q)
    \/ CallSheetData(1, FALSE)
    \/ StepRead(1) \/ ChatReadOk(1) \/ ChatReadFail(1)
    \/ Finish(1, FALSE)

\* the steps a handler takes by itself, up to the call of get_all_values or
\* append_row
StepLocal(t) ==
    \/ GsdCheck(t)
    \/ GsNow(t) \/ GsCheck(t) \/ GsHit(t)
    \/ GsOpenOk(t) \/ GsOpenFail(t) \/ GsSetSheet(t) \/ GsSetTs(t)

\* the threaded server over a sheet whose reads and appends get no response:
\* lines 65 and 106 set no timeout, so a handler that made the call takes no
\* further step
NextSilent ==
    \/ Tick(MaxTimeThreaded)
    \/ \E t \in Threads : CallCache(t) \/ StepLocal(t) \/ Finish(t, FALSE)

\* a handler that can take a step of its own takes it
Running == \A t \in Threads : WF_vars(StepLocal(t) \/ Finish(t, FALSE))

\* the threaded server serving snapshot reads only, up to MaxTime
NextReads ==
    \/ Tick(MaxTime)
    \/ \E t \in Threads :
          \/ \E force \in BOOLEAN : CallSheetData(t, force)
          \/ StepRead(t)
          \/ Finish(t, FALSE)

Spec == Init /\ [][Next]_vars
SpecReads == Init /\ [][NextReads]_vars
SpecSilent == Init /\ [][NextSilent]_vars /\ Running
SpecChat == InitSearch /\ [][NextChat]_vars
SpecSeq == Init /\ [][NextSeq]_vars
SpecSearch == InitSearch /\ [][NextSearch]_vars

-----------------------------------------------------------------------------
(* Properties of the snapshot cache *)

\* thread t's handler has answered; its locals are those of the finished call
Done(t) == th[t].pc = "done"

\* the handler of thread t called get_sheet_data(force=False) and has answered
DoneData(t) == Done(t) /\ th[t].tnow # 0 /\ ~th[t].force

\* the call before it, by the same thread, was get_sheet_data(force=False) too,
\* found a connection and populated the cache, less than a TTL earlier
AfterPopulate(t) ==
    /\ DoneData(t)
    /\ prev[t].d.tnow # 0 /\ ~prev[t].d.force /\ prev[t].d.stored
    /\ th[t].tnow - prev[t].d.tnow < CACHE_TTL_SECONDS

\* C1: of two non-forced get_sheet_data calls made less than CACHE_TTL_SECONDS
\* apart, the first of which populated the cache, exactly one performs a remote
\* full read, and the second returns the headers and rows the first returned.
C1_Idempotent ==
    \A t \in Threads :
        AfterPopulate(t) =>
            /\ prev[t].d.reads + th[t].reads = 1
            /\ th[t].hdrs = prev[t].d.hdrs
            /\ th[t].rows = prev[t].d.rows

\* C1 witness: the second call answered from the cache although a row was
\* appended to the sheet between the two calls.
C1_Witness ==
    /\ AfterPopulate(1)
    /\ th[1].hit
    /\ SplitRows(remote) # th[1].rows

\* the non-forced call of thread t saw a snapshot whose TTL had elapsed, and
\* nothing failed: the connection was there and the sheet answered
AfterExpiry(t) ==
    /\ DoneData(t)
    /\ th[t].f0 # 0
    /\ th[t].tnow - th[t].f0 >= CACHE_TTL_SECONDS
    /\ th[t].out = "ok"

\* C2: a non-forced get_sheet_data call that finds a snapshot cached at f with
\* now - f >= CACHE_TTL_SECONDS, and a connection, performs exactly one remote
\* full read and leaves fetched_at strictly greater than f (the time of the call).
C2_Freshness ==
    \A t \in Threads :
        AfterExpiry(t) =>
            /\ th[t].reads = 1
            /\ cached_data.fetched_at > th[t].f0
            /\ cached_data.fetched_at = th[t].tnow

\* C2 witness: a call refreshed an expired snapshot.
C2_Witness ==
    AfterExpiry(1) /\ th[1].stored

\* the non-forced call of thread t got no connection
NoConnection(t) == DoneData(t) /\ th[t].out = "noconn"

\* the call of thread t went to the remote source: it tried to open the sheet
\* or it called get_all_values
WentRemote(t) ==
    /\ ~th[t].hit
    /\ th[t].gnow # 0
    /\ th[t].att = 1 \/ th[t].reads = 1 \/ th[t].out = "error"

\* C3: without a connection, a non-forced get_sheet_data call on a stale or
\* empty cache returns ([], []) and leaves fetched_at as it found it; the next
\* call goes to the remote source again rather than being served from the cache.
C3_NoConnection ==
    \A t \in Threads :
        /\ NoConnection(t) =>
              /\ th[t].hdrs = <<>> /\ th[t].rows = <<>>
              /\ ~th[t].stored
              /\ cached_data.fetched_at = th[t].f0
        /\ (DoneData(t) /\ prev[t].d.tnow # 0 /\ ~prev[t].d.force
                /\ prev[t].d.out = "noconn") => WentRemote(t)

\* C3 witness: over a stale, populated cache two calls in a row got no
\* connection, and the second tried to open the sheet again.
C3_Witness ==
    /\ NoConnection(1)
    /\ prev[1].d.out = "noconn"
    /\ cached_data.fetched_at # 0
    /\ cached_data.headers # <<>>
    /\ th[1].att = 1

\* thread t is in (or has finished) a non-forced get_sheet_data call that
\* found the snapshot stale or missing at line 59
SawStale(t) ==
    /\ th[t].tnow # 0 /\ ~th[t].force
    /\ th[t].pc # "gsd_check"
    /\ ~th[t].hit

\* C4: handlers that concurrently see the same stale or empty snapshot cause
\* one remote full read between them (single-flight refresh).
C4_SingleFlight ==
    \A t1, t2 \in Threads :
        (t1 # t2 /\ SawStale(t1) /\ SawStale(t2) /\ th[t1].f0 = th[t2].f0)
            => th[t1].reads + th[t2].reads <= 1

\* C5: whatever fails upstream of get_sheet_data (no connection, or
\* get_all_values raising), the call returns the empty snapshot; no error
\* reaches the route handler.
C5_EmptyOnFailure ==
    \A t \in Threads :
        (Done(t) /\ th[t].tnow # 0 /\ th[t].out # "ok")
            => (th[t].out = "noconn" /\ th[t].hdrs = <<>> /\ th[t].rows = <<>>)

-----------------------------------------------------------------------------
(* Properties of search_rows *)

\* the /search handler of thread t has answered
DoneSearch(t) == Done(t) /\ th[t].op = "search"

\* q is empty or whitespace only
IsBlank(q) == \A i \in 1..Len(q) : q[i] \in Whitespace

\* cell contains s as a substring, letter case ignored
CIContains(cell, s) ==
    \E off \in 0..(Len(cell) - Len(s)) :
        \A k \in 1..Len(s) : LowerChar(cell[off + k]) = LowerChar(s[k])

\* some cell of the row contains s, letter case ignored
RowHas(row, s) == \E c \in 1..Len(row) : CIContains(row[c], s)

\* q without its leading and trailing whitespace: the part of q between a
\* whitespace prefix and a whitespace suffix that itself neither starts nor
\* ends with whitespace (no such part when q is blank)
Trims(q) ==
    { SubSeq(q, a + 1, b) : <<a, b>> \in
        { p \in (0..Len(q)) \X (0..Len(q)) :
            /\ p[1] < p[2]
            /\ \A i \in 1..p[1] : q[i] \in Whitespace
            /\ \A i \in (p[2] + 1)..Len(q) : q[i] \in Whitespace
            /\ q[p[1] + 1] \notin Whitespace
            /\ q[p[2]] \notin Whitespace } }

\* the rows of the snapshot that thread t's search got (its positions)
RowIdx(t) == 1..Len(th[t].rows)

\* C6: a query that is empty or whitespace only gets no rows, whatever the
\* cached snapshot and the remote sheet hold.
C6_BlankQuery ==
    \A t \in Threads :
        (DoneSearch(t) /\ IsBlank(th[t].q)) => th[t].resp = <<>>

\* C6 witness: a whitespace query answered while the cache held data rows.
C6_Witness ==
    /\ DoneSearch(1)
    /\ th[1].q # <<>> /\ IsBlank(th[1].q)
    /\ cached_data.rows # <<>>
    /\ Len(remote) > 1

\* C7 as stated: every returned row contains q itself (padding included),
\* letter case ignored, in one of its cells.
C7_RawQuery ==
    \A t \in Threads :
        (DoneSearch(t) /\ th[t].q # <<>>) =>
            \A i \in 1..Len(th[t].resp) : RowHas(th[t].resp[i], th[t].q)

\* C7, amended: every returned row is a row of the snapshot that contains q
\* with its leading and trailing whitespace removed, letter case ignored, in
\* one of its cells.
C7_TrimmedQuery ==
    \A t \in Threads :
        (DoneSearch(t) /\ th[t].q # <<>>) =>
            \A i \in 1..Len(th[t].resp) :
                /\ \E u \in Trims(th[t].q) : RowHas(th[t].resp[i], u)
                /\ \E j \in RowIdx(t) : th[t].rows[j] = th[t].resp[i]

\* C7 witness: a padded query returned some row of a snapshot and left out
\* another.
C7_Witness ==
    /\ DoneSearch(1)
    /\ th[1].q # <<>>
    /\ th[1].q[1] \in Whitespace
    /\ th[1].resp # <<>>
    /\ Len(th[1].resp) < Len(th[1].rows)
    /\ MAX_SEARCH_RESULTS = 0

\* the positions of the snapshot rows that match thread t's query
MatchIdx(t) ==
    {i \in RowIdx(t) : \E u \in Trims(th[t].q) : RowHas(th[t].rows[i], u)}

\* the j-th smallest element of a set of numbers
Nth(S, j) == CHOOSE i \in S : Cardinality({k \in S : k < i}) = j - 1

Min(a, b) == IF a <= b THEN a ELSE b

\* the response of thread t is the first n matching rows, in snapshot order
FirstMatches(t, n) ==
    /\ Len(th[t].resp) = n
    /\ \A j \in 1..n : th[t].resp[j] = th[t].rows[Nth(MatchIdx(t), j)]

\* C8 as stated: for every MAX_SEARCH_RESULTS, 0 included, a search returns at
\* most that many rows: the earliest matches in snapshot order.
C8_AnyLimit ==
    \A t \in Threads :
        (DoneSearch(t) /\ ~IsBlank(th[t].q)) =>
            /\ Len(th[t].resp) <= MAX_SEARCH_RESULTS
            /\ FirstMatches(t, Min(MAX_SEARCH_RESULTS, Cardinality(MatchIdx(t))))

\* C8, amended: for MAX_SEARCH_RESULTS >= 1 a non-blank search returns the
\* earliest MAX_SEARCH_RESULTS matches in snapshot order (all of them if there
\* are fewer); MAX_SEARCH_RESULTS = 0 switches the limit off and every match is
\* returned, in snapshot order.
C8_PositiveLimit ==
    \A t \in Threads :
        (DoneSearch(t) /\ ~IsBlank(th[t].q)) =>
            IF MAX_SEARCH_RESULTS = 0
            THEN FirstMatches(t, Cardinality(MatchIdx(t)))
            ELSE /\ Len(th[t].resp) <= MAX_SEARCH_RESULTS
                 /\ FirstMatches(t, Min(MAX_SEARCH_RESULTS,
                                        Cardinality(MatchIdx(t))))

\* C8 witness: the limit cut a result: more rows matched than were returned.
C8_Witness ==
    /\ DoneSearch(1)
    /\ MAX_SEARCH_RESULTS >= 1
    /\ Len(th[1].resp) = MAX_SEARCH_RESULTS
    /\ Cardinality(MatchIdx(1)) > MAX_SEARCH_RESULTS
    /\ th[1].rows[1] # th[1].rows[Len(th[1].rows)]

-----------------------------------------------------------------------------
(* Properties of the connection cache *)

\* get_sheet has returned to the handler of thread t
Returned(t) ==
    /\ th[t].gnow # 0
    /\ th[t].pc \in {"gsd_read", "gsd_store", "add_append", "done"}

\* the entry that get_sheet found at line 34 was a handle younger than
\* SHEET_REAUTH_SECONDS
FoundUsable(r) ==
    r.s0.sheet # None /\ r.gnow - r.s0.ts < SHEET_REAUTH_SECONDS

\* C9: get_sheet returns the cached handle, with no open attempt, when a handle
\* is cached and now - ts < SHEET_REAUTH_SECONDS; otherwise it makes one open
\* attempt, and when that succeeds the cache holds the new handle and the time
\* of the call by the time the handle is returned.
C9_GetSheet ==
    \A t \in Threads :
        Returned(t) =>
            IF FoundUsable(th[t])
            THEN /\ th[t].att = 0
                 /\ th[t].sheet = th[t].s0.sheet
                 /\ sheet_singleton = th[t].s0
            ELSE /\ th[t].att = 1
                 /\ th[t].sheet # None =>
                       /\ th[t].sheet # th[t].s0.sheet
                       /\ sheet_singleton =
                            [sheet |-> th[t].sheet, ts |-> th[t].gnow]

\* C9 witness: an expired handle was replaced by a newly opened one.
C9_Witness ==
    /\ Returned(1)
    /\ th[1].s0.sheet # None
    /\ th[1].att = 1
    /\ th[1].sheet # None

\* the open attempt of get_sheet call r failed
OpenFailedIn(r) == r.gnow # 0 /\ r.att = 1 /\ r.sheet = None

\* C10: a failed open attempt returns None and leaves _sheet_singleton as it
\* was; no call makes more than one attempt; and the get_sheet call after a
\* failed one finds the same expired entry and makes a new open attempt.
C10_FailedOpen ==
    \A t \in Threads :
        /\ th[t].att <= 1
        /\ (Returned(t) /\ OpenFailedIn(th[t])) => sheet_singleton = th[t].s0
        /\ (Returned(t) /\ OpenFailedIn(prev[t].g)) =>
              /\ th[t].s0 = prev[t].g.s0
              /\ ~FoundUsable(th[t])
              /\ th[t].att = 1

\* C10 witness: re-authentication of an expired handle failed twice in a row;
\* the old handle is still cached with its old timestamp.
C10_Witness ==
    /\ Returned(1)
    /\ OpenFailedIn(prev[1].g)
    /\ OpenFailedIn(th[1])
    /\ sheet_singleton.sheet # None


-----------------------------------------------------------------------------
(* Properties of add_row, get_latest and chat_router *)

\* thread t's add_row handler appended its row and answered
DoneAdd(t) == Done(t) /\ th[t].op = "add" /\ th[t].out = "ok"

\* thread t's non-forced get_sheet_data call came after a row it appended, which
\* came after a call of get_sheet_data that stored a snapshot less than a TTL ago
AfterAppend(t) ==
    /\ DoneData(t)
    /\ prev[t].added
    /\ prev[t].d.stored
    /\ th[t].tnow - prev[t].d.tnow < CACHE_TTL_SECONDS

\* C11: add_row writes its row through the connection handle and leaves the
\* snapshot cache as it was; a non-forced get_sheet_data call made after the
\* append and within the TTL of the stored snapshot performs no remote read and
\* returns the snapshot stored before the append, not the sheet as it now is.
C11_AppendKeepsCache ==
    \A t \in Threads :
        /\ DoneAdd(t) =>
              /\ th[t].sheet # None
              /\ remote # <<>> /\ remote[Len(remote)] = th[t].row
              /\ prev[t].d.stored =>
                    cached_data = [headers |-> prev[t].d.hdrs,
                                   rows |-> prev[t].d.rows,
                                   fetched_at |-> prev[t].d.tnow]
        /\ AfterAppend(t) =>
              /\ th[t].hit /\ th[t].reads = 0
              /\ th[t].hdrs = prev[t].d.hdrs /\ th[t].rows = prev[t].d.rows
              /\ <<th[t].hdrs, th[t].rows>> #
                     <<SplitHeaders(remote), SplitRows(remote)>>

\* C11 witness: a call answered from the cache after an append, and the rows it
\* returned lack the appended row.
C11_Witness ==
    /\ AfterAppend(1)
    /\ th[1].hit
    /\ Len(th[1].rows) < Len(SplitRows(remote))

\* thread t's get_latest handler has answered
DoneLatest(t) == Done(t) /\ th[t].op = "latest"

\* C12: get_latest answers with the last row of the snapshot that a non-forced
\* get_sheet_data call returned to it (the cached snapshot on a hit, the sheet
\* as read on a refresh), and with the empty row when that snapshot has no data
\* rows: a header row only, an empty sheet, or no connection.
C12_Latest ==
    \A t \in Threads :
        DoneLatest(t) /\ th[t].out # "error" =>
            /\ th[t].tnow # 0 /\ ~th[t].force
            /\ th[t].hit => <<th[t].hdrs, th[t].rows>> =
                               <<cached_data.headers, cached_data.rows>>
            /\ th[t].reads = 1 => th[t].rows = SplitRows(remote)
            /\ th[t].out = "noconn" => th[t].rows = <<>> /\ th[t].resp = <<>>
            /\ th[t].rows = <<>> => th[t].resp = <<>>
            /\ th[t].rows # <<>> =>
                  th[t].resp = th[t].rows[Len(th[t].rows)]

\* C12 witness: get_latest answered from a snapshot of two different data rows.
C12_Witness ==
    /\ DoneLatest(1)
    /\ Len(th[1].rows) = 2
    /\ th[1].rows[1] # th[1].rows[2]
    /\ th[1].resp = th[1].rows[2]

\* thread t's chat_router handler has answered a query that
\* _basic_chat_response left unanswered
DoneChat(t) ==
    Done(t) /\ th[t].op = "chat" /\ BasicChatResponse(th[t].q) = "none"

\* lines 125-139: the headers and rows search_rows answers for q over the
\* snapshot (hdrs, rows)
SearchOver(limit, q, hdrs, rows) ==
    IF NormQuery(q) = <<>>
    THEN << <<>>, <<>> >>
    ELSE <<SearchHeaders(hdrs, rows), SearchResponse(limit, q, hdrs, rows)>>

\* C13: for a query that the small-talk matcher leaves unanswered, chat_router
\* with a connection performs one remote full read whatever the age of the
\* cached snapshot, and the headers and rows of its answer are those that
\* search_rows gives for the same query and limit over the sheet as it is at
\* that moment; a text answer carries no headers and no rows.
C13_ChatIsFreshSearch ==
    \A t \in Threads :
        DoneChat(t) /\ th[t].out # "error" =>
            /\ th[t].sheet # None => th[t].reads = 1
            /\ th[t].sheet = None => th[t].reads = 0
            /\ th[t].rtype = "text" => th[t].rhdrs = <<>> /\ th[t].resp = <<>>
            /\ <<th[t].rhdrs, th[t].resp>> =
                  IF th[t].sheet = None
                  THEN SearchOver(MAX_SEARCH_RESULTS, th[t].q, <<>>, <<>>)
                  ELSE SearchOver(MAX_SEARCH_RESULTS, th[t].q,
                                  SplitHeaders(remote), SplitRows(remote))

\* C13 witness: chat_router read the sheet and answered with a table cut to
\* the limit although the cache held a fresh snapshot.
C13_Witness ==
    /\ DoneChat(1)
    /\ cached_data.fetched_at # 0
    /\ clock - cached_data.fetched_at < CACHE_TTL_SECONDS
    /\ th[1].reads = 1
    /\ th[1].rtype = "table"
    /\ th[1].resp # <<>>
    /\ Len(th[1].resp) < Len(FilterRows(NormQuery(th[1].q), SplitRows(remote)))

\* thread t's handler has called get_all_values or append_row and waits for
\* the response
Waiting(t) == th[t].pc \in {"gsd_read", "add_append"}

\* C14: a handler that waits for the response of a remote read or of an append
\* eventually answers its caller, also when the response never comes.
C14_Returns == \A t \in Threads : Waiting(t) ~> Done(t)

\* thread t takes the step, in an add_row handler that holds no handle
AddStepNoHandle(t) ==
    /\ th'[t] # th[t]
    /\ th[t].op = "add" \/ th'[t].op = "add"
    /\ th'[t].sheet = None

\* C17: no step of an add_row handler that got no connection writes to the
\* sheet or changes the snapshot cache or the connection cache, and the handler
\* ends with the redirect of line 102, not with an error.
C17_AddWithoutConnection ==
    [][\A t \in Threads :
          AddStepNoHandle(t) =>
              /\ remote' = remote
              /\ cached_data' = cached_data
              /\ sheet_singleton' = sheet_singleton
              /\ th'[t].out \in {"none", "noconn"}
              /\ th'[t].pc = "done" => th'[t].out = "noconn"]_vars

\* C17 witness: add_row found no connection and answered, while the snapshot
\* cache held a snapshot and the connection cache an expired handle.
C17_Witness ==
    /\ Done(1) /\ th[1].op = "add" /\ th[1].out = "noconn"
    /\ th[1].sheet = None /\ th[1].att = 1
    /\ cached_data.fetched_at # 0
    /\ sheet_singleton.sheet # None

-----------------------------------------------------------------------------
(* Properties of a refresh *)

\* thread t's get_sheet_data(force=True) call had a connection, the sheet
\* answered, and the call has returned
DoneForced(t) ==
    Done(t) /\ th[t].tnow # 0 /\ th[t].force /\ th[t].out = "ok"

\* C15: get_sheet_data(force=True) with a connection performs a remote full
\* read whatever the age of the cached snapshot, and replaces the cached
\* headers, rows and fetched_at together by the result of that read and the
\* time of the call, which is also what it returns.
C15_Forced ==
    \A t \in Threads :
        DoneForced(t) =>
            /\ ~th[t].hit /\ th[t].reads = 1 /\ th[t].stored
            /\ cached_data = [headers |-> SplitHeaders(remote),
                              rows |-> SplitRows(remote),
                              fetched_at |-> th[t].tnow]
            /\ th[t].hdrs = cached_data.headers
            /\ th[t].rows = cached_data.rows

\* C15 witness: a forced call found a snapshot younger than the TTL and
\* replaced its rows and its fetched_at.
C15_Witness ==
    /\ DoneForced(1)
    /\ th[1].f0 # 0
    /\ th[1].tnow - th[1].f0 < CACHE_TTL_SECONDS
    /\ th[1].tnow # th[1].f0
    /\ prev[1].d.stored
    /\ prev[1].d.rows # th[1].rows

\* thread t's get_sheet_data call read the sheet, stored the result and returned
DoneRefresh(t) == Done(t) /\ th[t].stored

\* C16: after a refresh the stored headers are the first row of the sheet as
\* read and the stored rows are all its other rows, in order and as they are;
\* a sheet of no rows gives empty headers and rows, a sheet of one row gives
\* that row as headers and no rows; the snapshot is stored with the time of
\* the call.
C16_Split ==
    \A t \in Threads :
        DoneRefresh(t) =>
            LET n == Len(remote)
            IN  /\ cached_data.fetched_at = th[t].tnow
                /\ th[t].tnow <= clock
                /\ n = 0 => cached_data.headers = <<>> /\ cached_data.rows = <<>>
                /\ n = 1 => cached_data.rows = <<>>
                /\ n >= 1 =>
                      /\ cached_data.headers = remote[1]
                      /\ Len(cached_data.rows) = n - 1
                      /\ \A i \in 1..(n - 1) : cached_data.rows[i] = remote[i + 1]

\* C16 witness: a refresh, later than the first second, stored a sheet of one
\* row as headers without rows.
C16_Witness ==
    /\ DoneRefresh(1)
    /\ Len(remote) = 1
    /\ cached_data.headers = remote[1]
    /\ cached_data.rows = <<>>
    /\ cached_data.fetched_at > 1

-----------------------------------------------------------------------------
(* Properties of the snapshot cache under overlapping requests *)

\* C18: no step lowers the fetched_at of the snapshot cache: a refresh that
\* started earlier never stores over the snapshot of one that started later.
C18_FetchedAtMonotone ==
    [][cached_data'.fetched_at >= cached_data.fetched_at]_vars

\* thread t's non-forced get_sheet_data call was answered from the cache
DoneHit(t) == DoneData(t) /\ th[t].hit

\* C19: a snapshot that get_sheet_data(force=False) serves from the cache at
\* time now was read from the sheet no earlier than now - CACHE_TTL_SECONDS.
C19_Staleness ==
    \A t \in Threads :
        DoneHit(t) => th[t].rat >= th[t].tnow - CACHE_TTL_SECONDS

\* the sheet as it has been so far: rows are only ever appended to it
Held == {SubSeq(remote, 1, k) : k \in 0..Len(remote)}

\* the cache is as at start-up, or holds the headers and rows of one sheet read
OneRead ==
    \/ cached_data = NoData
    \/ /\ cached_data.fetched_at # 0
       /\ \E data \in Held :
             /\ cached_data.headers = SplitHeaders(data)
             /\ cached_data.rows = SplitRows(data)

\* a step that changes a stored snapshot is line 68 of a call that read the
\* sheet, and stores what that call read; no step empties the cache
StoredOnly ==
    cached_data.fetched_at # 0 /\ cached_data' # cached_data =>
        /\ cached_data'.fetched_at # 0
        /\ \E t \in Threads :
              /\ th[t].pc = "gsd_store" /\ th[t].reads = 1 /\ th'[t].stored
              /\ cached_data'.headers = th[t].hdrs
              /\ cached_data'.rows = th[t].rows

\* C20: in every reachable state of the threaded server the cached headers
\* and rows are both empty with fetched_at = 0, or are the header row and the
\* data rows of one and the same read of the sheet; and no step of a failed
\* refresh, of an append or of any other handler clears or changes a stored
\* snapshot, except the store of a refresh.
C20_SnapshotConsistent == []OneRead /\ [][StoredOnly]_vars

\* C20 witness: a refresh failed while the cache held a snapshot taken before
\* a row was appended, and the snapshot is still there.
C20_Witness ==
    /\ Done(1) /\ th[1].tnow # 0 /\ th[1].out = "error"
    /\ cached_data.fetched_at # 0
    /\ Len(remote) > Len(cached_data.rows) + 1
    /\ Done(2) /\ th[2].op = "add"

=============================================================================
